---- MODULE Spec2Model ----
(***************************************************************************)
(* Degeneracy ordering (src/src/degeneracy_helper.c) and the command-line  *)
(* driver (src/src/degeneracy_cliques.c) of exact-near-clique-counting.    *)
(*                                                                         *)
(* Spec     : computeDegeneracy(list, size) is called on a simple,         *)
(*            symmetric graph and, on the same adjacency lists, one of the *)
(*            three ordering routines; after computeDegeneracyOrderArray,  *)
(*            computeDegeneracyOrderArrayVerticesSorted may be called on   *)
(*            them too.  One action per iteration of each loop of the C    *)
(*            code.                                                        *)
(* FairSpec : Spec with weak fairness of the (single-threaded) program.    *)
(* SpecMain : main() of the driver, one action per getopt() call.          *)
(***************************************************************************)
EXTENDS Integers, Sequences, FiniteSets, TLC

VARIABLES
    size,               \* int size: number of vertices
    list,               \* LinkedList** list: adjacency list of every vertex
    target,             \* the ordering routine called after computeDegeneracy, or NULL
    routine,            \* the function that is executing
    pc,                 \* position in that function
    i,                  \* loop index i (v in the renaming loop)
    verticesByDegree,   \* LinkedList** verticesByDegree
    vertexLocator,      \* Link** vertexLocator
    degree,             \* int* degree
    degeneracy,         \* int degeneracy
    currentDegree,      \* int currentDegree
    numVerticesRemoved, \* int numVerticesRemoved
    ordering,           \* NeighborList** ordering
    vertexMapping,      \* int* vertexMapping
    orderingArray,      \* NeighborListArray** orderingArray
    degResult,          \* value returned by computeDegeneracy
    arrayResult,        \* value returned by computeDegeneracyOrderArray
    argc,               \* main: argc
    optind,             \* main: getopt's index of the next element of argv
    mpc,                \* main: position
    fpath,              \* main: char* fpath
    t,                  \* main: char t
    flag_d,             \* main: int flag_d
    flag_o,             \* main: int flag_o
    max_k,              \* main: int max_k
    printed,            \* main: the lines written to stdout
    exitCode,           \* main: status the process ended with
    passed              \* main: arguments handed to runAndPrintStatsCliques

peelVars == <<size, list, target, routine, pc, i, verticesByDegree,
              vertexLocator, degree, degeneracy, currentDegree,
              numVerticesRemoved, ordering, vertexMapping, orderingArray,
              degResult, arrayResult>>
mainVars == <<argc, optind, mpc, fpath, t, flag_d, flag_o, max_k,
              printed, exitCode, passed>>
vars == <<peelVars, mainVars>>

\* Largest number of vertices of an input graph.
MaxN == 3
\* Largest argc of a command line.
MaxArgc == 12

NULL == "NULL"
\* A null Link*.
NullLink == [bucket |-> -1, data |-> -1]
\* Marks an int nobody has written since Malloc, or since its declaration.
Indeterminate == -2
\* Values a read of such memory may produce.
IntSample == -1 .. 3

RoutineDegeneracy == "computeDegeneracy"
RoutineList == "computeDegeneracyOrderList"
RoutineArray == "computeDegeneracyOrderArray"
RoutineSorted == "computeDegeneracyOrderArrayVerticesSorted"
OrderingRoutines == {RoutineList, RoutineArray, RoutineSorted}

Vertices == 0 .. (size - 1)

----------------------------------------------------------------------------
(* LinkedList.h / misc.h: a list is the sequence of its data, a Link is    *)
(* the list it hangs in together with its data.                            *)

createLinkedList == << >>

isEmpty(l) == l = << >>

length(l) == Len(l)

getFirst(l) == l[1]

addFirst(l, data) == <<data>> \o l

addLast(l, data) == Append(l, data)

max(a, b) == IF a > b THEN a ELSE b

Link(bucket, data) == [bucket |-> bucket, data |-> data]

RECURSIVE unlink(_, _)
unlink(l, data) ==
    IF l = << >> THEN << >>
    ELSE IF Head(l) = data THEN Tail(l)
    ELSE <<Head(l)>> \o unlink(Tail(l), data)

\* deleteLink(link) on the array of bucket lists the link lives in.
deleteLink(buckets, link) ==
    [buckets EXCEPT ![link.bucket] = unlink(@, link.data)]

----------------------------------------------------------------------------
(* Input graphs: every simple symmetric graph on 1..MaxN vertices, every   *)
(* order of every adjacency list.                                          *)

RECURSIVE Perms(_)
Perms(S) ==
    IF S = {} THEN { << >> }
    ELSE UNION { { <<x>> \o p : p \in Perms(S \ {x}) } : x \in S }

RECURSIVE Product(_, _)
Product(P, k) ==
    IF k = 0 THEN { << >> }
    ELSE { Append(s, p) : s \in Product(P, k - 1), p \in P[k] }

EdgeSets(n) == SUBSET { e \in SUBSET (0 .. (n - 1)) : Cardinality(e) = 2 }

AdjacencyLists(n) ==
    UNION { { [v \in 0 .. (n - 1) |-> s[v + 1]] :
                s \in Product([k \in 1 .. n |->
                         Perms({ u \in 0 .. (n - 1) : {u, k - 1} \in E })], n) }
            : E \in EdgeSets(n) }

----------------------------------------------------------------------------
(* The peeling loop.  Its text is repeated in the four routines; the      *)
(* shared operators below take what differs as a parameter: whether the   *)
(* routine keeps earlier/later lists (withOrdering) and whether it fills  *)
(* vertexMapping (withMapping).                                           *)

\* (variant: the degree of the latest removal instead of the largest so far)
newDegeneracyLast(deg, cur) == cur

\* degeneracy = max(degeneracy,currentDegree);
newDegeneracy(deg, cur) == max(deg, cur)

\* (variant: the cursor is left where it is)
resetDegreeKept(cur) == cur

\* currentDegree = 0; after a removal
resetDegree(cur) == 0

\* (variant: the first vertex of the fullest-degree bucket that is not empty)
takeVertexLargest(buckets, cur) ==
    getFirst(buckets[CHOOSE d \in DOMAIN buckets :
                        /\ ~isEmpty(buckets[d])
                        /\ \A e \in DOMAIN buckets : e > d => isEmpty(buckets[e])])

\* int vertex = getFirst(verticesByDegree[currentDegree]);
takeVertex(buckets, cur) == getFirst(buckets[cur])

\* (variant: ranks counted from 1)
newOrderNumberFromOne(removed) == removed + 1

\* ordering[vertex]->orderNumber = numVerticesRemoved;
newOrderNumber(removed) == removed

\* (variant: the else branch that records an earlier neighbour is missing)
recordNeighborNoEarlier(ord, vertex, neighbor, live) ==
    IF live THEN [ord EXCEPT ![vertex].later = addLast(@, neighbor)]
    ELSE ord

\* (variant: the two lists are mixed up)
recordNeighborSwapped(ord, vertex, neighbor, live) ==
    IF live THEN [ord EXCEPT ![vertex].earlier = addLast(@, neighbor)]
    ELSE [ord EXCEPT ![vertex].later = addLast(@, neighbor)]

\* (variant: every neighbour is recorded as a later one)
recordNeighborAllLater(ord, vertex, neighbor, live) ==
    [ord EXCEPT ![vertex].later = addLast(@, neighbor)]

\* addLast(ordering[vertex]->later, neighbor) for a neighbour that is still in
\* a bucket, addLast(ordering[vertex]->earlier, neighbor) for a removed one.
recordNeighbor(ord, vertex, neighbor, live) ==
    IF live THEN [ord EXCEPT ![vertex].later = addLast(@, neighbor)]
    ELSE [ord EXCEPT ![vertex].earlier = addLast(@, neighbor)]

\* (variant: the Link that addFirst returns is not stored in vertexLocator)
visitNeighborStaleLocator(st, vertex, neighbor, withOrdering) ==
    IF st.degree[neighbor] # -1
    THEN LET unlinked == deleteLink(st.verticesByDegree,
                                    st.vertexLocator[neighbor])
             dec == st.degree[neighbor] - 1
         IN  [ verticesByDegree |->
                   IF dec # -1
                   THEN [unlinked EXCEPT ![dec] = addFirst(@, neighbor)]
                   ELSE unlinked,
               vertexLocator |-> st.vertexLocator,
               degree |-> [st.degree EXCEPT ![neighbor] = dec],
               ordering |->
                   IF withOrdering
                   THEN recordNeighbor(st.ordering, vertex, neighbor, TRUE)
                   ELSE st.ordering ]
    ELSE [ st EXCEPT !.ordering =
                   IF withOrdering
                   THEN recordNeighbor(@, vertex, neighbor, FALSE)
                   ELSE @ ]

\* One iteration of while(!isTail(neighborLink)): st holds the arrays the
\* iteration reads and writes.
visitNeighbor(st, vertex, neighbor, withOrdering) ==
    IF st.degree[neighbor] # -1
    THEN LET unlinked == deleteLink(st.verticesByDegree,
                                    st.vertexLocator[neighbor])
             dec == st.degree[neighbor] - 1
         IN  [ verticesByDegree |->
                   IF dec # -1
                   THEN [unlinked EXCEPT ![dec] = addFirst(@, neighbor)]
                   ELSE unlinked,
               vertexLocator |->
                   IF dec # -1
                   THEN [st.vertexLocator EXCEPT ![neighbor] = Link(dec, neighbor)]
                   ELSE st.vertexLocator,
               degree |-> [st.degree EXCEPT ![neighbor] = dec],
               ordering |->
                   IF withOrdering
                   THEN recordNeighbor(st.ordering, vertex, neighbor, TRUE)
                   ELSE st.ordering ]
    ELSE [ st EXCEPT !.ordering =
                   IF withOrdering
                   THEN recordNeighbor(@, vertex, neighbor, FALSE)
                   ELSE @ ]

\* while(!isTail(neighborLink)) { ... neighborLink = neighborLink->next; }
\* (s1, the arrays after one iteration, is bound as a value before the next
\* iteration reads it)
RECURSIVE visitNeighbors(_, _, _, _)
visitNeighbors(st, vertex, neighborList, withOrdering) ==
    IF neighborList = << >> THEN st
    ELSE CHOOSE result \in
             { visitNeighbors(s1, vertex, Tail(neighborList), withOrdering) :
                 s1 \in { visitNeighbor(st, vertex, Head(neighborList),
                                        withOrdering) } } : TRUE

\* Where the routine goes when while(numVerticesRemoved < size) ends.
afterPeel(r) == IF r \in {RoutineArray, RoutineSorted} THEN "convert" ELSE "return"

\* for(i=0; i<size; i++) { degree[i] = length(list[i]);
\*                         vertexLocator[i] = addFirst(verticesByDegree[degree[i]], i); }
\* followed by int currentDegree = 0; int numVerticesRemoved = 0;
\* (verticesByDegree has size cells: the step is defined for an index inside it)
FillLoop ==
    /\ pc = "fill"
    /\ i < size
    /\ LET d == length(list[i]) IN
         /\ d \in DOMAIN verticesByDegree
         /\ degree' = [degree EXCEPT ![i] = d]
         /\ verticesByDegree' = [verticesByDegree EXCEPT ![d] = addFirst(@, i)]
         /\ vertexLocator' = [vertexLocator EXCEPT ![i] = Link(d, i)]
    /\ i' = i + 1
    /\ IF i + 1 < size
       THEN /\ pc' = "fill"
            /\ UNCHANGED <<currentDegree, numVerticesRemoved>>
       ELSE /\ pc' = "peel"
            /\ currentDegree' = 0
            /\ numVerticesRemoved' = 0
    /\ UNCHANGED <<size, list, target, routine, degeneracy, ordering,
                   vertexMapping, orderingArray, degResult,
                   arrayResult, mainVars>>

\* The branch if(!isEmpty(verticesByDegree[currentDegree])) of the loop, up to
\* the next test of while(numVerticesRemoved < size).
\* (verticesByDegree has size cells: the step is defined for a cursor inside it)
RemoveBranch(withOrdering, withMapping) ==
    /\ pc = "peel"
    /\ numVerticesRemoved < size
    /\ currentDegree \in DOMAIN verticesByDegree
    /\ ~isEmpty(verticesByDegree[currentDegree])
    /\ LET vertex == takeVertex(verticesByDegree, currentDegree)
           st0 == [ verticesByDegree |->
                        deleteLink(verticesByDegree, vertexLocator[vertex]),
                    vertexLocator |-> vertexLocator,
                    degree |-> [degree EXCEPT ![vertex] = -1],
                    ordering |->
                        IF withOrdering
                        THEN [ordering EXCEPT
                                 ![vertex].vertex = vertex,
                                 ![vertex].orderNumber =
                                     newOrderNumber(numVerticesRemoved)]
                        ELSE ordering ]
           st1 == visitNeighbors(st0, vertex, list[vertex], withOrdering)
       IN  /\ degeneracy' = newDegeneracy(degeneracy, currentDegree)
           /\ verticesByDegree' = st1.verticesByDegree
           /\ vertexLocator' = st1.vertexLocator
           /\ degree' = st1.degree
           /\ ordering' = st1.ordering
           /\ vertexMapping' =
                  IF withMapping
                  THEN [vertexMapping EXCEPT ![vertex] = numVerticesRemoved]
                  ELSE vertexMapping
    /\ numVerticesRemoved' = numVerticesRemoved + 1
    /\ currentDegree' = resetDegree(currentDegree)
    /\ IF numVerticesRemoved + 1 < size
       THEN pc' = "peel" /\ i' = i
       ELSE pc' = afterPeel(routine) /\ i' = 0
    /\ UNCHANGED <<size, list, target, routine, orderingArray, degResult,
                   arrayResult, mainVars>>

\* The branch else { currentDegree++; } of the loop.
ScanBranch ==
    /\ pc = "peel"
    /\ numVerticesRemoved < size
    /\ currentDegree \in DOMAIN verticesByDegree
    /\ isEmpty(verticesByDegree[currentDegree])
    /\ currentDegree' = currentDegree + 1
    /\ UNCHANGED <<size, list, target, routine, pc, i, verticesByDegree,
                   vertexLocator, degree, degeneracy, numVerticesRemoved,
                   ordering, vertexMapping, orderingArray, degResult,
                   arrayResult, mainVars>>

----------------------------------------------------------------------------
(* computeDegeneracy *)

DegeneracyFill == routine = RoutineDegeneracy /\ FillLoop

DegeneracyRemove == routine = RoutineDegeneracy /\ RemoveBranch(FALSE, FALSE)

DegeneracyScan == routine = RoutineDegeneracy /\ ScanBranch

\* return degeneracy;
DegeneracyReturn ==
    /\ routine = RoutineDegeneracy
    /\ pc = "return"
    /\ degResult' = degeneracy
    /\ pc' = "done"
    /\ UNCHANGED <<size, list, target, routine, i, verticesByDegree,
                   vertexLocator, degree, degeneracy, currentDegree,
                   numVerticesRemoved, ordering, vertexMapping,
                   orderingArray, arrayResult, mainVars>>

----------------------------------------------------------------------------
(* The three ordering routines *)

\* ordering[i] = Malloc(sizeof(NeighborList)); earlier and later are created
\* empty, vertex and orderNumber are not written.
newNeighborList ==
    [ vertex |-> Indeterminate, orderNumber |-> Indeterminate,
      earlier |-> createLinkedList, later |-> createLinkedList ]

\* Entry of an ordering routine up to the end of its first loop: the Calloc'ed
\* arrays and the empty lists.
OrderingCall(r) ==
    /\ routine = RoutineDegeneracy
    /\ pc = "done"
    /\ target' = r
    /\ routine' = r
    /\ pc' = "fill"
    /\ i' = 0
    /\ degeneracy' = 0
    /\ verticesByDegree' = [d \in Vertices |-> createLinkedList]
    /\ vertexLocator' = [v \in Vertices |-> NullLink]
    /\ degree' = [v \in Vertices |-> 0]
    /\ ordering' = [v \in Vertices |-> newNeighborList]
    /\ vertexMapping' = IF r = RoutineSorted
                        THEN [v \in Vertices |-> 0] ELSE vertexMapping
    /\ UNCHANGED <<size, list, currentDegree, numVerticesRemoved,
                   orderingArray, degResult, arrayResult, mainVars>>

\* computeDegeneracyOrderArrayVerticesSorted(list, size) is called on the
\* adjacency lists computeDegeneracyOrderArray has returned from; the array that
\* call returned is kept.  Entry up to the end of the first loop.
SortedAfterArray ==
    /\ routine = RoutineArray
    /\ pc = "done"
    /\ arrayResult' = orderingArray
    /\ target' = RoutineSorted
    /\ routine' = RoutineSorted
    /\ pc' = "fill"
    /\ i' = 0
    /\ degeneracy' = 0
    /\ verticesByDegree' = [d \in Vertices |-> createLinkedList]
    /\ vertexLocator' = [v \in Vertices |-> NullLink]
    /\ degree' = [v \in Vertices |-> 0]
    /\ ordering' = [v \in Vertices |-> newNeighborList]
    /\ vertexMapping' = [v \in Vertices |-> 0]
    /\ orderingArray' = << >>
    /\ UNCHANGED <<size, list, currentDegree, numVerticesRemoved, degResult,
                   mainVars>>

OrderListFill == routine = RoutineList /\ FillLoop

OrderListRemove == routine = RoutineList /\ RemoveBranch(TRUE, FALSE)

OrderListScan == routine = RoutineList /\ ScanBranch

OrderArrayFill == routine = RoutineArray /\ FillLoop

OrderArrayRemove == routine = RoutineArray /\ RemoveBranch(TRUE, FALSE)

OrderArrayScan == routine = RoutineArray /\ ScanBranch

SortedFill == routine = RoutineSorted /\ FillLoop

SortedRemove == routine = RoutineSorted /\ RemoveBranch(TRUE, TRUE)

SortedScan == routine = RoutineSorted /\ ScanBranch

\* What a read of an int yields.
readInt(x) == IF x = Indeterminate THEN IntSample ELSE {x}

\* (variant: the operands the other way round)
qsortComparatorReversed(node1, node2) == node2 - node1

\* int qsortComparator(node1, node2): *node1 - *node2
qsortComparator(node1, node2) == node1 - node2

\* qsort(base, nmemb, sizeof(int), compar): the elements of base in an order
\* compar does not object to.
RECURSIVE insertSorted(_, _)
insertSorted(s, x) ==
    IF s = << >> THEN <<x>>
    ELSE IF qsortComparator(x, Head(s)) <= 0 THEN <<x>> \o s
    ELSE <<Head(s)>> \o insertSorted(Tail(s), x)

RECURSIVE qsort(_)
qsort(base) ==
    IF base = << >> THEN << >>
    ELSE insertSorted(qsort(Tail(base)), Head(base))

\* The copy loops: array[j++] = (int) curr->data
copyList(l) == [j \in 1 .. length(l) |-> l[j]]

\* (variant: the copy loops store curr->data itself)
renameListUnmapped(l, mapping) == [j \in 1 .. length(l) |-> l[j]]

\* The copy loops of the renaming variant: array[j++] = vertexMapping[curr->data]
renameList(l, mapping) == [j \in 1 .. length(l) |-> mapping[l[j]]]

\* orderingArray[idx] = Malloc(...) and the writes of its fields: orderingArray
\* maps the indices that hold a record, the others are the NULLs of Calloc.
store(array, idx, record) ==
    [x \in (DOMAIN array) \cup {idx} |-> IF x = idx THEN record ELSE array[x]]

\* for(i = 0; i<size;i++) { orderingArray[i] = ...copy of ordering[i]... }
OrderArrayConvert ==
    /\ routine = RoutineArray
    /\ pc = "convert"
    /\ i < size
    /\ \E vtx \in readInt(ordering[i].vertex),
          num \in readInt(ordering[i].orderNumber) :
          orderingArray' = store(orderingArray, i,
              [ vertex |-> vtx,
                orderNumber |-> num,
                laterDegree |-> length(ordering[i].later),
                later |-> copyList(ordering[i].later),
                earlierDegree |-> length(ordering[i].earlier),
                earlier |-> copyList(ordering[i].earlier) ])
    /\ i' = i + 1
    /\ pc' = IF i + 1 < size THEN "convert" ELSE "return"
    /\ UNCHANGED <<size, list, target, routine, verticesByDegree,
                   vertexLocator, degree, degeneracy, currentDegree,
                   numVerticesRemoved, ordering, vertexMapping, degResult,
                   arrayResult, mainVars>>

\* for (v = 0; v < size; v++) { i = vertexMapping[v]; orderingArray[i] = ...
\*   renamed and sorted copy of ordering[v]... }        (i of the model is v)
SortedConvert ==
    /\ routine = RoutineSorted
    /\ pc = "convert"
    /\ i < size
    /\ LET idx == vertexMapping[i] IN
          orderingArray' = store(orderingArray, idx,
              [ vertex |-> idx,
                orderNumber |-> idx,
                laterDegree |-> length(ordering[i].later),
                later |-> qsort(renameList(ordering[i].later, vertexMapping)),
                earlierDegree |-> length(ordering[i].earlier),
                earlier |-> qsort(renameList(ordering[i].earlier, vertexMapping)) ])
    /\ i' = i + 1
    /\ pc' = IF i + 1 < size THEN "convert" ELSE "return"
    /\ UNCHANGED <<size, list, target, routine, verticesByDegree,
                   vertexLocator, degree, degeneracy, currentDegree,
                   numVerticesRemoved, ordering, vertexMapping, degResult,
                   arrayResult, mainVars>>

\* return ordering; / return orderingArray;
OrderingReturn ==
    /\ routine \in OrderingRoutines
    /\ pc = "return"
    /\ pc' = "done"
    /\ UNCHANGED <<size, list, target, routine, i, verticesByDegree,
                   vertexLocator, degree, degeneracy, currentDegree,
                   numVerticesRemoved, ordering, vertexMapping,
                   orderingArray, degResult, arrayResult, mainVars>>

----------------------------------------------------------------------------
(* main() of the driver.  argv is not stored: each getopt() call draws the *)
(* option it finds next, its argument and the number of elements of argv   *)
(* the two occupy (2 for "-t A", 1 for "-tA"), within what argc leaves.    *)

\* if (argc != 11)
RequiredArgc == 11

\* A char variable nobody has assigned.
NoChar == "unassigned"
\* Values a read of such a char may produce, and first characters of a -t
\* argument.
CharSample == {"A", "V", "E", "X"}
\* Results of atoi(optarg).
AtoiSample == -1 .. 3
\* Status of a process that abort() ended (128 + SIGABRT).
AbortStatus == 134
\* Status of a process the loader ended because it could not read the graph.
LoaderFailure == 1

readChar(c) == IF c = NoChar THEN CharSample ELSE {c}

UsageLine == "Incorrect number of arguments."
TypeLine == "Incorrect type. Type should be A, V or E."
DataLine == "Incorrect flag for data. Shoudld be 0, 1 or 2."
OptimizeLine == "Incorrect flag for data. Shoudld be 0 or 1"
ArgumentErrorLines == {UsageLine, TypeLine, DataLine, OptimizeLine}

\* The ways main ends or goes on that leave its variables alone.
mainLeaves(position, line, status) ==
    /\ mpc' = position
    /\ printed' = Append(printed, line)
    /\ exitCode' = status

\* if (argc != 11) { printf(usage); return 0; }
MainUsage ==
    /\ mpc = "start"
    /\ argc # RequiredArgc
    /\ mainLeaves("exit", UsageLine, 0)
    /\ UNCHANGED <<argc, optind, fpath, t, flag_d, flag_o, max_k, passed,
                   peelVars>>

\* The declarations: fpath = Calloc(1000, 1), max_k = 0; t, flag_d and flag_o
\* are declared without a value.
MainDeclare ==
    /\ mpc = "start"
    /\ argc = RequiredArgc
    /\ mpc' = "getopt"
    /\ fpath' = ""
    /\ max_k' = 0
    /\ UNCHANGED <<argc, optind, t, flag_d, flag_o, printed, exitCode, passed,
                   peelVars>>

\* getopt() returns an option of ":i:t:k:d:o:" with its argument.
getoptFinds(elements) ==
    /\ mpc = "getopt"
    /\ elements \in {1, 2}
    /\ optind + elements <= argc
    /\ optind' = optind + elements

\* case 'i': fpath = optarg;
MainOptionI ==
    \E elements \in {1, 2} : \E path \in {"graph.edges"} :
        /\ getoptFinds(elements)
        /\ fpath' = path
        /\ UNCHANGED <<argc, mpc, t, flag_d, flag_o, max_k, printed, exitCode,
                       passed, peelVars>>

\* case 't': t = *optarg; if (t is none of 'A','V','E') { printf; return 0; }
MainOptionT ==
    \E elements \in {1, 2} : \E c \in CharSample :
        /\ getoptFinds(elements)
        /\ t' = c
        /\ IF (c # "A") /\ (c # "V") /\ (c # "E")
           THEN mainLeaves("exit", TypeLine, 0)
           ELSE UNCHANGED <<mpc, printed, exitCode>>
        /\ UNCHANGED <<argc, fpath, flag_d, flag_o, max_k, passed, peelVars>>

\* case 'k': max_k = atoi(optarg);
MainOptionK ==
    \E elements \in {1, 2} : \E value \in {0, 3} :
        /\ getoptFinds(elements)
        /\ max_k' = value
        /\ UNCHANGED <<argc, mpc, fpath, t, flag_d, flag_o, printed, exitCode,
                       passed, peelVars>>

\* case 'd': flag_d = atoi(optarg); if (flag_d < 0 || flag_d > 2) { printf; return 0; }
MainOptionD ==
    \E elements \in {1, 2} : \E value \in AtoiSample :
        /\ getoptFinds(elements)
        /\ flag_d' = value
        /\ IF (value < 0) \/ (value > 2)
           THEN mainLeaves("exit", DataLine, 0)
           ELSE UNCHANGED <<mpc, printed, exitCode>>
        /\ UNCHANGED <<argc, fpath, t, flag_o, max_k, passed, peelVars>>

\* case 'o': flag_o = atoi(optarg); if (flag_o < 0 || flag_o > 1) { printf; return 0; }
MainOptionO ==
    \E elements \in {1, 2} : \E value \in AtoiSample :
        /\ getoptFinds(elements)
        /\ flag_o' = value
        /\ IF (value < 0) \/ (value > 1)
           THEN mainLeaves("exit", OptimizeLine, 0)
           ELSE UNCHANGED <<mpc, printed, exitCode>>
        /\ UNCHANGED <<argc, fpath, t, flag_d, max_k, passed, peelVars>>

\* default: printf("In default case.\n"); abort();  getopt() returned '?' for
\* an option that is not in the option string, or ':' for one of its options
\* that is the last element of argv and has no argument.
MainOptionDefault ==
    /\ mpc = "getopt"
    /\ optind + 1 <= argc
    /\ optind' = optind + 1
    /\ mainLeaves("exit", "In default case.", AbortStatus)
    /\ UNCHANGED <<argc, fpath, t, flag_d, flag_o, max_k, passed, peelVars>>

\* getopt() returns -1: what is left of argv holds no option.  Then
\* printf("New code.\n") and the call of readInGraphAdjListToDoubleEdges.
MainParsed ==
    /\ mpc = "getopt"
    /\ optind <= argc
    /\ optind' = argc
    /\ mpc' = "load"
    /\ printed' = Append(printed, "New code.")
    /\ UNCHANGED <<argc, fpath, t, flag_d, flag_o, max_k, exitCode, passed,
                   peelVars>>

\* readInGraphAdjListToDoubleEdges(&n, &m, fpath) returns the graph.
MainLoaded ==
    /\ mpc = "load"
    /\ mpc' = "run"
    /\ UNCHANGED <<argc, optind, fpath, t, flag_d, flag_o, max_k, printed,
                   exitCode, passed, peelVars>>

\* readInGraphAdjListToDoubleEdges(&n, &m, fpath) cannot read a graph at fpath.
MainLoadFails ==
    /\ mpc = "load"
    /\ mpc' = "exit"
    /\ exitCode' = LoaderFailure
    /\ UNCHANGED <<argc, optind, fpath, t, flag_d, flag_o, max_k, printed,
                   passed, peelVars>>

\* printf("about to call runAndPrint.\n");
\* runAndPrintStatsCliques(adjacencyList, n, gname, t, max_k, flag_d, flag_o);
\* ... return 0;
MainRun ==
    /\ mpc = "run"
    /\ \E c \in readChar(t), d \in readInt(flag_d), o \in readInt(flag_o) :
          passed' = << [t |-> c, max_k |-> max_k, flag_d |-> d, flag_o |-> o] >>
    /\ mainLeaves("exit", "about to call runAndPrint.", 0)
    /\ UNCHANGED <<argc, optind, fpath, t, flag_d, flag_o, max_k, peelVars>>

\* main() has not been started.
MainIdle ==
    /\ argc = 0
    /\ optind = 1
    /\ mpc = "idle"
    /\ fpath = NULL
    /\ t = NoChar
    /\ flag_d = Indeterminate
    /\ flag_o = Indeterminate
    /\ max_k = Indeterminate
    /\ printed = << >>
    /\ exitCode = Indeterminate
    /\ passed = << >>

\* No routine of degeneracy_helper.c has been called.
PeelIdle ==
    /\ size = 0
    /\ list = << >>
    /\ target = NULL
    /\ routine = NULL
    /\ pc = "idle"
    /\ i = 0
    /\ verticesByDegree = << >>
    /\ vertexLocator = << >>
    /\ degree = << >>
    /\ degeneracy = 0
    /\ currentDegree = 0
    /\ numVerticesRemoved = 0
    /\ ordering = << >>
    /\ vertexMapping = << >>
    /\ orderingArray = << >>
    /\ degResult = Indeterminate
    /\ arrayResult = << >>

\* main(argc, argv) has been entered.
InitMain ==
    /\ argc \in 1 .. MaxArgc
    /\ optind = 1
    /\ mpc = "start"
    /\ fpath = NULL
    /\ t = NoChar
    /\ flag_d = Indeterminate
    /\ flag_o = Indeterminate
    /\ max_k = Indeterminate
    /\ printed = << >>
    /\ exitCode = Indeterminate
    /\ passed = << >>
    /\ PeelIdle

NextMain ==
    \/ MainUsage
    \/ MainDeclare
    \/ MainOptionI
    \/ MainOptionT
    \/ MainOptionK
    \/ MainOptionD
    \/ MainOptionO
    \/ MainOptionDefault
    \/ MainParsed
    \/ MainLoaded
    \/ MainLoadFails
    \/ MainRun

SpecMain == InitMain /\ [][NextMain]_vars

\* computeDegeneracy(list, size) has been entered and has allocated its
\* arrays and created the empty bucket lists.
Init ==
    /\ size \in 1 .. MaxN
    /\ list \in AdjacencyLists(size)
    /\ target = NULL
    /\ routine = RoutineDegeneracy
    /\ pc = "fill"
    /\ i = 0
    /\ verticesByDegree = [d \in Vertices |-> createLinkedList]
    /\ vertexLocator = [v \in Vertices |-> NullLink]
    /\ degree = [v \in Vertices |-> 0]
    /\ degeneracy = 0
    /\ currentDegree = 0
    /\ numVerticesRemoved = 0
    /\ ordering = << >>
    /\ vertexMapping = << >>
    /\ orderingArray = << >>
    /\ degResult = Indeterminate
    /\ arrayResult = << >>
    /\ MainIdle

Next ==
    \/ DegeneracyFill
    \/ DegeneracyRemove
    \/ DegeneracyScan
    \/ DegeneracyReturn
    \/ \E r \in OrderingRoutines : OrderingCall(r)
    \/ OrderListFill
    \/ OrderListRemove
    \/ OrderListScan
    \/ OrderArrayFill
    \/ OrderArrayRemove
    \/ OrderArrayScan
    \/ OrderArrayConvert
    \/ SortedFill
    \/ SortedRemove
    \/ SortedScan
    \/ SortedConvert
    \/ OrderingReturn
    \/ SortedAfterArray

Spec == Init /\ [][Next]_vars

\* The program is a single thread that always takes its next step.
FairSpec == Spec /\ WF_vars(Next)

----------------------------------------------------------------------------
(* The input graph and the result, as the claims speak of them.            *)

Range(s) == { s[k] : k \in 1 .. Len(s) }

\* N(v)
N(v) == Range(list[v])

\* |E|
NumEdges == Cardinality({ e \in SUBSET Vertices :
                            /\ Cardinality(e) = 2
                            /\ \E u \in e : \E w \in e \ {u} : w \in N(u) })

RECURSIVE SumOver(_, _)
SumOver(f, S) ==
    IF S = {} THEN 0
    ELSE LET x == CHOOSE y \in S : TRUE IN f[x] + SumOver(f, S \ {x})

Maximum(S) == CHOOSE x \in S : \A y \in S : y <= x
Minimum(S) == CHOOSE x \in S : \A y \in S : x <= y

\* max over non-empty S of the minimum degree of the subgraph induced by S
CoreDegeneracy ==
    Maximum({ Minimum({ Cardinality(N(v) \cap S) : v \in S }) :
                S \in (SUBSET Vertices) \ {{}} })

\* the smallest d such that some total order leaves every vertex at most d
\* later neighbours
OrderDegeneracy ==
    Minimum({ Maximum({ Cardinality({ u \in N(p[k]) :
                            \E m \in (k + 1) .. size : p[m] = u }) :
                        k \in 1 .. size }) :
              p \in Perms(Vertices) })

DegeneracyReturned == routine = RoutineDegeneracy /\ pc = "done"
OrderingReturned == routine \in OrderingRoutines /\ pc = "done"

\* The id under which the result speaks of input vertex v.
Rename(v) == IF routine = RoutineSorted THEN vertexMapping[v] ELSE v

\* The record the result holds for input vertex v.
Record(v) == IF routine = RoutineList THEN ordering[v]
             ELSE orderingArray[Rename(v)]

LaterCount(v) == IF routine = RoutineList THEN Len(ordering[v].later)
                 ELSE orderingArray[Rename(v)].laterDegree

NoRepeats(s) == Cardinality(Range(s)) = Len(s)

StrictlyAscending(s) == \A k \in 1 .. (Len(s) - 1) : s[k] < s[k + 1]

----------------------------------------------------------------------------
\* C1: computeDegeneracy returns the true degeneracy of the graph: the
\* maximum over non-empty vertex subsets of the minimum induced degree, which
\* is also the smallest d for which some total order leaves every vertex at
\* most d later neighbours.
C1_ReturnsDegeneracy ==
    DegeneracyReturned =>
        /\ degResult = CoreDegeneracy
        /\ degResult = OrderDegeneracy

\* computeDegeneracy has returned on a graph whose degeneracy is neither 0 nor
\* its maximum degree.
C1_Witness ==
    /\ DegeneracyReturned
    /\ degResult >= 1
    /\ \E v \in Vertices : Len(list[v]) > degResult

\* C2: in the ordering any of the three routines produces, every vertex has at
\* most d later neighbours and some vertex has exactly d, d being the value
\* computeDegeneracy returned on the same adjacency lists.
C2_LaterBoundedByDegeneracy ==
    OrderingReturned =>
        /\ \A v \in Vertices : LaterCount(v) <= degResult
        /\ \E v \in Vertices : LaterCount(v) = degResult

\* an ordering routine has returned on a graph with a vertex of degree above d
C2_Witness ==
    /\ OrderingReturned
    /\ degResult >= 1
    /\ \E v \in Vertices : Len(list[v]) > degResult
    /\ \E v \in Vertices : LaterCount(v) = degResult

\* C3: after the ordering routine finishes, every edge {u,v} has exactly one
\* of u in later(v), v in later(u), and u in later(v) puts v in earlier(u).
C3_EdgeOrientedOnce ==
    OrderingReturned =>
        \A u \in Vertices : \A v \in N(u) :
            /\ (Rename(u) \in Range(Record(v).later))
                 # (Rename(v) \in Range(Record(u).later))
            /\ (Rename(u) \in Range(Record(v).later))
                 => (Rename(v) \in Range(Record(u).earlier))

\* an ordering routine has returned on a graph with at least two edges
C3_Witness ==
    /\ OrderingReturned
    /\ NumEdges >= 2
    /\ \E u \in Vertices : \E v \in N(u) :
          Rename(u) \in Range(Record(v).later)

\* C4: after the ordering routine finishes, later(v) holds exactly the
\* neighbours of v with a larger orderNumber and earlier(v) exactly those with
\* a smaller one; the two lists are disjoint, repeat no entry and together
\* are N(v).
C4_ListsPartitionByRank ==
    OrderingReturned =>
        \A v \in Vertices :
            /\ Range(Record(v).later) =
                 { Rename(u) : u \in { w \in N(v) :
                       Record(w).orderNumber > Record(v).orderNumber } }
            /\ Range(Record(v).earlier) =
                 { Rename(u) : u \in { w \in N(v) :
                       Record(w).orderNumber < Record(v).orderNumber } }
            /\ Range(Record(v).later) \cap Range(Record(v).earlier) = {}
            /\ NoRepeats(Record(v).later)
            /\ NoRepeats(Record(v).earlier)
            /\ Range(Record(v).later) \cup Range(Record(v).earlier) =
                 { Rename(u) : u \in N(v) }

\* an ordering routine has returned and some vertex has both an earlier and a
\* later neighbour
C4_Witness ==
    /\ OrderingReturned
    /\ \E v \in Vertices :
          /\ Len(Record(v).later) >= 1
          /\ Len(Record(v).earlier) >= 1

\* C5: after the ordering routine finishes, the laterDegree values sum to the
\* number of undirected edges, half the total length of the adjacency lists.
C5_LaterDegreesSumToEdges ==
    OrderingReturned =>
        /\ SumOver([v \in Vertices |-> LaterCount(v)], Vertices) = NumEdges
        /\ 2 * SumOver([v \in Vertices |-> LaterCount(v)], Vertices) =
             SumOver([v \in Vertices |-> Len(list[v])], Vertices)

\* an ordering routine has returned on a graph with edges, two of them leaving
\* one vertex towards later ones
C5_Witness ==
    /\ OrderingReturned
    /\ NumEdges >= 2
    /\ \E v \in Vertices : LaterCount(v) >= 2

\* C6: in the result of computeDegeneracyOrderArrayVerticesSorted every index
\* idx of [0,n) holds a record with vertex = orderNumber = idx, a strictly
\* ascending later array with entries in (idx,n) and a strictly ascending
\* earlier array with entries in [0,idx).
C6_RenamedRecordsSorted ==
    (routine = RoutineSorted /\ pc = "done") =>
        \A idx \in Vertices :
            /\ orderingArray[idx].vertex = idx
            /\ orderingArray[idx].orderNumber = idx
            /\ StrictlyAscending(orderingArray[idx].later)
            /\ Range(orderingArray[idx].later) \subseteq (idx + 1) .. (size - 1)
            /\ StrictlyAscending(orderingArray[idx].earlier)
            /\ Range(orderingArray[idx].earlier) \subseteq 0 .. (idx - 1)

\* the renaming routine has returned and some later list was out of order
\* before it was sorted
C6_Witness ==
    /\ routine = RoutineSorted
    /\ pc = "done"
    /\ \E v \in Vertices :
          /\ Len(ordering[v].later) >= 2
          /\ ~StrictlyAscending(renameList(ordering[v].later, vertexMapping))

\* C7: the peeling loop of the ordering routines terminates and, when it has,
\* every vertex has been removed exactly once: the orderNumber values are a
\* bijection from V onto 0..n-1.
C7_PeelingTerminates ==
    <>( /\ OrderingReturned
        /\ numVerticesRemoved = size
        /\ \A v \in Vertices : degree[v] = -1
        /\ \A k \in 0 .. (size - 1) :
              Cardinality({ v \in Vertices : ordering[v].orderNumber = k }) = 1 )

\* an ordering routine has returned on a graph with an edge, so that its
\* cursor had to leave bucket 0 and removals changed the buckets
C7_Witness ==
    /\ OrderingReturned
    /\ size >= 2
    /\ numVerticesRemoved = size
    /\ degeneracy >= 1

\* C10: at every removal step of the peeling loop the vertex removed has the
\* minimum number of not-yet-removed neighbours among the not-yet-removed
\* vertices, and (in the ordering routines) its orderNumber is the number of
\* vertices removed before it.
C10_RemovesMinimumDegree ==
    [][ \A v \in Vertices :
          (pc = "peel" /\ degree[v] # -1 /\ degree'[v] = -1) =>
             /\ \A w \in Vertices :
                   degree[w] # -1 =>
                      Cardinality({ u \in N(v) : degree[u] # -1 })
                        <= Cardinality({ u \in N(w) : degree[u] # -1 })
             /\ routine \in OrderingRoutines =>
                   ordering'[v].orderNumber =
                      Cardinality({ u \in Vertices : degree[u] = -1 }) ]_vars

\* the loop of an ordering routine is between two removals, and the removals
\* so far have lowered the degree of a waiting vertex below the degree at
\* which an earlier vertex was taken
C10_Witness ==
    /\ routine \in OrderingRoutines
    /\ pc = "peel"
    /\ numVerticesRemoved >= 2
    /\ \E v \in Vertices :
          /\ degree[v] # -1
          /\ degree[v] < Len(list[v])
          /\ degree[v] < degeneracy

----------------------------------------------------------------------------
\* C8: whenever main detects an argument error (an argument count other than
\* 11, a -t value other than A/V/E, a -d value outside 0..2, a -o value outside
\* 0..1) the process ends with a nonzero exit code, and exit code 0 comes only
\* from a run that reached runAndPrintStatsCliques.
C8_ArgumentErrorExitsNonzero ==
    mpc = "exit" =>
        /\ (printed # << >> /\ printed[Len(printed)] \in ArgumentErrorLines)
              => exitCode # 0
        /\ exitCode = 0 => passed # << >>

\* C9: whenever main reaches the graph loader and then
\* runAndPrintStatsCliques, -i and -t were supplied and the values handed on
\* are valid and come from supplied options: t is A, V or E, flag_d is in
\* 0..2, flag_o is in 0..1.
C9_CoreGetsValidArguments ==
    /\ mpc \in {"load", "run"} =>
          /\ fpath # ""
          /\ t \in {"A", "V", "E"}
          /\ flag_d \in 0 .. 2
          /\ flag_o \in 0 .. 1
    /\ passed # << >> =>
          /\ fpath # ""
          /\ passed[1].t = t /\ t \in {"A", "V", "E"}
          /\ passed[1].flag_d = flag_d /\ flag_d \in 0 .. 2
          /\ passed[1].flag_o = flag_o /\ flag_o \in 0 .. 1

----------------------------------------------------------------------------
\* Number of links of list l that hold data.
Occurrences(l, data) == Cardinality({ k \in 1 .. Len(l) : l[k] = data })

\* C11: at the start of every iteration of the peeling loop each vertex not
\* yet removed is in exactly one bucket, verticesByDegree[degree[v]], once;
\* degree[v] is the number of its neighbours not yet removed and
\* vertexLocator[v] is its link in that bucket; every removed vertex has
\* degree -1 and is in no bucket, and the vertices of degree -1 are as many as
\* the removals counted.
C11_BucketsMatchDegrees ==
    pc = "peel" =>
        /\ Cardinality({ v \in Vertices : degree[v] = -1 }) = numVerticesRemoved
        /\ \A v \in Vertices :
              IF degree[v] # -1
              THEN /\ degree[v] \in DOMAIN verticesByDegree
                   /\ degree[v] = Cardinality({ u \in N(v) : degree[u] # -1 })
                   /\ \A d \in DOMAIN verticesByDegree :
                         Occurrences(verticesByDegree[d], v) =
                            IF d = degree[v] THEN 1 ELSE 0
                   /\ vertexLocator[v] = Link(degree[v], v)
              ELSE \A d \in DOMAIN verticesByDegree :
                         Occurrences(verticesByDegree[d], v) = 0

\* the loop is between two removals, one vertex is gone and a vertex still
\* waiting has been moved to the bucket of a lower degree
C11_Witness ==
    /\ pc = "peel"
    /\ numVerticesRemoved >= 1
    /\ \E v \in Vertices :
          /\ degree[v] # -1
          /\ degree[v] < Len(list[v])
          /\ Occurrences(verticesByDegree[degree[v]], v) = 1
    /\ \E v \in Vertices : degree[v] = -1

\* computeDegeneracyOrderArrayVerticesSorted has returned on the adjacency
\* lists computeDegeneracyOrderArray returned from just before.
SortedAfterArrayReturned ==
    /\ routine = RoutineSorted
    /\ pc = "done"
    /\ DOMAIN arrayResult = Vertices

\* r(v): the orderNumber computeDegeneracyOrderArray has given input vertex v.
ArrayRank(v) == arrayResult[v].orderNumber

\* C12: computeDegeneracyOrderArrayVerticesSorted is the rank-renaming of
\* computeDegeneracyOrderArray on the same input: with r(v) the orderNumber
\* computeDegeneracyOrderArray gives vertex v, the renamed record at index r(v)
\* has the laterDegree and earlierDegree of v's unrenamed record, its later
\* array holds, as a set, the r(u) of the u in later(v) and its earlier array
\* the r(u) of the u in earlier(v).
C12_SortedIsRenamedArray ==
    SortedAfterArrayReturned =>
        \A v \in Vertices :
            /\ ArrayRank(v) \in DOMAIN orderingArray
            /\ orderingArray[ArrayRank(v)].laterDegree =
                  arrayResult[v].laterDegree
            /\ orderingArray[ArrayRank(v)].earlierDegree =
                  arrayResult[v].earlierDegree
            /\ Range(orderingArray[ArrayRank(v)].later) =
                  { ArrayRank(u) : u \in Range(arrayResult[v].later) }
            /\ Range(orderingArray[ArrayRank(v)].earlier) =
                  { ArrayRank(u) : u \in Range(arrayResult[v].earlier) }

\* both routines have returned on a graph where some vertex has a later
\* neighbour and an earlier neighbour whose ranks differ from their ids, and
\* its own rank differs from its id
C12_Witness ==
    /\ SortedAfterArrayReturned
    /\ \E v \in Vertices :
          /\ ArrayRank(v) # v
          /\ \E u \in Range(arrayResult[v].later) : ArrayRank(u) # u
          /\ \E u \in Range(arrayResult[v].earlier) : ArrayRank(u) # u

\* C13: every index used to access verticesByDegree during peeling lies in
\* [0, size-1]: length(list[i]) when vertex i is about to be filed, the degree
\* of every vertex still waiting (the index of its reinsertions), and
\* currentDegree whenever vertices remain; no decrement has taken the degree
\* of a waiting vertex to -1, so the vertices of degree -1 are exactly as many
\* as the removals.
C13_BucketIndicesInRange ==
    /\ (pc = "fill" /\ i < size) => length(list[i]) \in 0 .. (size - 1)
    /\ (pc = "peel" /\ numVerticesRemoved < size) =>
            currentDegree \in 0 .. (size - 1)
    /\ pc = "peel" =>
            /\ \A v \in Vertices : degree[v] \in -1 .. (size - 1)
            /\ Cardinality({ v \in Vertices : degree[v] = -1 }) =
                  numVerticesRemoved
            /\ numVerticesRemoved <= size

\* vertices remain after a removal that the cursor had to reach the last
\* bucket for, and a neighbour of the removed vertex has been filed again
\* under its decremented degree
C13_Witness ==
    /\ pc = "peel"
    /\ size >= 2
    /\ numVerticesRemoved >= 1
    /\ numVerticesRemoved < size
    /\ degeneracy = size - 1
    /\ \E v \in Vertices :
          /\ degree[v] # -1
          /\ degree[v] < Len(list[v])
          /\ ~isEmpty(verticesByDegree[degree[v]])
====
